---- MODULE Spec2Model ----
(***************************************************************************)
(* hOCR to PDF service (src/main.py): the /convert request handler         *)
(* convert_hocr_to_pdf and the hOCR word parser parse_hocr_words.          *)
(*                                                                         *)
(* Text is a sequence of one-character strings, so that the regular        *)
(* expression of parse_hocr_words, str.strip, int and the [:500] slice are *)
(* computed character by character.                                        *)
(***************************************************************************)
EXTENDS Integers, Sequences, FiniteSets, TLC

\* ------------------------------------------------------------------ bounds
\* Largest number of span elements in one hOCR document.
MaxSpans == 2
\* Largest elapsed time, in milliseconds, a request is observed to take.
MaxElapsedMs == 1
\* Length of the long word of the catalogue (two of them exceed the excerpt).
LongWordLen == 260

\* ------------------------------------------------------- program constants
\* full_text[:500] and hocr_html[:500]
ExcerptLen == 500

\* ------------------------------------------------------------ text helpers
UpperLetters == <<"A", "B", "C", "D", "E", "F", "G", "H", "I", "J", "K", "L", "M", "N", "O", "P", "Q", "R", "S", "T", "U", "V", "W", "X", "Y", "Z">>
LowerLetters == <<"a", "b", "c", "d", "e", "f", "g", "h", "i", "j", "k", "l", "m", "n", "o", "p", "q", "r", "s", "t", "u", "v", "w", "x", "y", "z">>
Digits == <<"0", "1", "2", "3", "4", "5", "6", "7", "8", "9">>

\* re.IGNORECASE compares characters after case folding.
ToLower(c) ==
    IF \E i \in 1..26 : UpperLetters[i] = c
    THEN LowerLetters[CHOOSE i \in 1..26 : UpperLetters[i] = c]
    ELSE c

ToUpper(c) ==
    IF \E i \in 1..26 : LowerLetters[i] = c
    THEN UpperLetters[CHOOSE i \in 1..26 : LowerLetters[i] = c]
    ELSE c

IsDigit(c) == \E i \in 1..10 : Digits[i] = c
DigitVal(c) == (CHOOSE i \in 1..10 : Digits[i] = c) - 1
IsSpace(c) == c \in {" ", "\n", "\t"}

\* int(x) of a string of decimal digits
RECURSIVE ToInt(_)
ToInt(ds) ==
    IF Len(ds) = 0 THEN 0
    ELSE 10 * ToInt(SubSeq(ds, 1, Len(ds) - 1)) + DigitVal(ds[Len(ds)])

\* text.strip()
Strip(s) ==
    IF \A i \in 1..Len(s) : IsSpace(s[i]) THEN <<>>
    ELSE LET first == CHOOSE i \in 1..Len(s) :
                        ~IsSpace(s[i]) /\ \A m \in 1..(i - 1) : IsSpace(s[m])
             last == CHOOSE i \in 1..Len(s) :
                        ~IsSpace(s[i]) /\ \A m \in (i + 1)..Len(s) : IsSpace(s[m])
         IN SubSeq(s, first, last)

\* s[:n]
Take(s, n) == IF Len(s) <= n THEN s ELSE SubSeq(s, 1, n)

\* ' '.join(parts)
RECURSIVE Join(_)
Join(parts) ==
    IF Len(parts) = 0 THEN <<>>
    ELSE IF Len(parts) = 1 THEN parts[1]
    ELSE parts[1] \o <<" ">> \o Join(Tail(parts))

\* [x for x in xs if x]
RECURSIVE NonEmpty(_)
NonEmpty(xs) ==
    IF Len(xs) = 0 THEN <<>>
    ELSE IF Len(xs[1]) = 0 THEN NonEmpty(Tail(xs))
    ELSE <<xs[1]>> \o NonEmpty(Tail(xs))

\* ------------------------------------------------- the regular expression
\* Pattern elements: a literal string, one character of a class, and a greedy
\* repetition of a class (min 0 for *, 1 for +) that is capture group g when
\* g > 0.
Lit(cs) == [k |-> "lit", cs |-> cs, cls |-> "", min |-> 0, g |-> 0]
One(cls) == [k |-> "one", cs |-> <<>>, cls |-> cls, min |-> 0, g |-> 0]
Rep(cls, min, g) == [k |-> "rep", cs |-> <<>>, cls |-> cls, min |-> min, g |-> g]

\* [\'"]   [^>]   [^<]   \d
InClass(cls, c) ==
    CASE cls = "quote" -> c \in {"'", "\""}
      [] cls = "notgt" -> c # ">"
      [] cls = "notlt" -> c # "<"
      [] cls = "digit" -> IsDigit(c)

\* r'<span class=[\'"]ocrx_word[\'"][^>]*title=[\'"]bbox (\d+) (\d+) (\d+) (\d+)[\'"][^>]*>([^<]+)</span>'
word_pattern ==
    << Lit(<<"<", "s", "p", "a", "n", " ", "c", "l", "a", "s", "s", "=">>),
       One("quote"),
       Lit(<<"o", "c", "r", "x", "_", "w", "o", "r", "d">>),
       One("quote"),
       Rep("notgt", 0, 0),
       Lit(<<"t", "i", "t", "l", "e", "=">>),
       One("quote"),
       Lit(<<"b", "b", "o", "x", " ">>),
       Rep("digit", 1, 1), Lit(<<" ">>),
       Rep("digit", 1, 2), Lit(<<" ">>),
       Rep("digit", 1, 3), Lit(<<" ">>),
       Rep("digit", 1, 4),
       One("quote"),
       Rep("notgt", 0, 0),
       Lit(<<">">>),
       Rep("notlt", 1, 5),
       Lit(<<"<", "/", "s", "p", "a", "n", ">">>) >>

NoMatch == [ok |-> FALSE, end |-> 0, caps |-> <<>>]
NoCaps == [g \in 1..5 |-> <<0, 0>>]

\* Number of consecutive characters of the class from position i on: the
\* distance to the first position that ends the run.
Run(cls, s, i) ==
    LET stop == CHOOSE j \in i..(Len(s) + 1) :
                    /\ (j = Len(s) + 1 \/ ~InClass(cls, s[j]))
                    /\ \A m \in i..(j - 1) : InClass(cls, s[m])
    IN stop - i

\* Does the literal cs stand at position i (after case folding under
\* re.IGNORECASE)?
LitAt(cs, s, i, ignorecase) ==
    /\ i + Len(cs) - 1 <= Len(s)
    /\ \A j \in 1..Len(cs) :
         IF ignorecase THEN ToLower(s[i + j - 1]) = ToLower(cs[j])
         ELSE s[i + j - 1] = cs[j]

\* Backtracking match of elements k.. of the pattern at position i. A greedy
\* repetition takes the longest run first and gives characters back one by
\* one until the rest of the pattern matches: it ends up with the largest
\* count for which the rest matches.
RECURSIVE MatchFrom(_, _, _, _, _, _)
MatchFrom(pat, k, s, i, caps, ignorecase) ==
    IF k > Len(pat) THEN [ok |-> TRUE, end |-> i, caps |-> caps]
    ELSE LET e == pat[k] IN
      CASE e.k = "lit" ->
             IF LitAt(e.cs, s, i, ignorecase)
             THEN MatchFrom(pat, k + 1, s, i + Len(e.cs), caps, ignorecase)
             ELSE NoMatch
        [] e.k = "one" ->
             IF i <= Len(s) /\ InClass(e.cls, s[i])
             THEN MatchFrom(pat, k + 1, s, i + 1, caps, ignorecase)
             ELSE NoMatch
        [] e.k = "rep" ->
             LET run == Run(e.cls, s, i)
                 capsAt(n) == IF e.g > 0 THEN [caps EXCEPT ![e.g] = <<i, i + n>>] ELSE caps
                 tries == {<<n, MatchFrom(pat, k + 1, s, i + n, capsAt(n), ignorecase)>> :
                             n \in e.min..run}
                 fits == {t \in tries : t[2].ok}
             IN IF fits = {} THEN NoMatch
                ELSE (CHOOSE t \in fits : \A u \in fits : u[1] <= t[1])[2]

\* The tuple of captured groups of a match.
Groups(s, caps) == [g \in 1..5 |-> SubSeq(s, caps[g][1], caps[g][2] - 1)]

\* re.findall(pattern, string, re.IGNORECASE): the non-overlapping matches,
\* leftmost first; each scan resumes where the previous match ended. found
\* holds, for every position where the pattern matches, the match there.
RECURSIVE FindFrom(_, _, _)
FindFrom(s, found, pos) ==
    LET cand == {f \in found : f[1] >= pos}
    IN IF cand = {} THEN <<>>
       ELSE LET f == CHOOSE x \in cand : \A y \in cand : x[1] <= y[1]
            IN <<Groups(s, f[2].caps)>>
               \o FindFrom(s, found, IF f[2].end > f[1] THEN f[2].end ELSE f[1] + 1)

findall(pat, s, ignorecase) ==
    LET tries == {<<p, MatchFrom(pat, 1, s, p, NoCaps, ignorecase)>> : p \in 1..Len(s)}
    IN FindFrom(s, {t \in tries : t[2].ok}, 1)

\* ------------------------------------------------------------ JSON values
\* A JSON value: t is its type, s its characters (str), n its number (num) or
\* its number of elements (list, dict).
Str(s) == [t |-> "str", s |-> s, n |-> 0]
Num(n) == [t |-> "num", s |-> <<>>, n |-> n]
List(n) == [t |-> "list", s |-> <<>>, n |-> n]
Dict(n) == [t |-> "dict", s |-> <<>>, n |-> n]
Null == [t |-> "null", s |-> <<>>, n |-> 0]

\* Python truth value: `not v` is ~Truthy(v)
Truthy(v) ==
    CASE v.t = "str" -> Len(v.s) > 0
      [] v.t = "num" -> v.n # 0
      [] v.t \in {"list", "dict"} -> v.n > 0
      [] v.t = "null" -> FALSE

\* len(v) raises TypeError for values without a length
HasLen(v) == v.t \in {"str", "list", "dict"}

\* v[:500] raises TypeError for values that cannot be sliced
Sliceable(v) == v.t \in {"str", "list"}

\* --------------------------------------------------------- parse_hocr_words
\* One Word record from one match tuple (x1, y1, x2, y2, text). Each of the
\* four groups is a non-empty run of digits, so int() returns for it and the
\* tuple has five parts: the except (ValueError, IndexError) clause around
\* this is not entered (int() refuses digit strings only beyond the
\* interpreter's limit of 4300 digits, far above the numbers modelled here).
WordOf(match) ==
    [text |-> Strip(match[5]),
     x1 |-> ToInt(match[1]),
     y1 |-> ToInt(match[2]),
     x2 |-> ToInt(match[3]),
     y2 |-> ToInt(match[4])]

\* The outcome of parse_hocr_words(hocr_html): the list it returns, or the
\* exception that leaves it. re.findall raises TypeError for a value that is
\* no string; the handler of that exception slices the value for the log.
parse_hocr_words(hocr_html) ==
    IF hocr_html.t = "str"
    THEN LET matches == findall(word_pattern, hocr_html.s, TRUE)
         IN [raised |-> FALSE, exc |-> "",
             words |-> [i \in 1..Len(matches) |-> WordOf(matches[i])]]
    ELSE IF Sliceable(hocr_html)
    THEN [raised |-> FALSE, exc |-> "", words |-> <<>>]
    ELSE [raised |-> TRUE, exc |-> "TypeError", words |-> <<>>]

\* -------------------------------------------------------- base64.b64decode
B64Alphabet == <<"A", "B", "C", "D", "E", "F", "G", "H", "I", "J", "K", "L", "M", "N", "O", "P", "Q", "R", "S", "T", "U", "V", "W", "X", "Y", "Z", "a", "b", "c", "d", "e", "f", "g", "h", "i", "j", "k", "l", "m", "n", "o", "p", "q", "r", "s", "t", "u", "v", "w", "x", "y", "z", "0", "1", "2", "3", "4", "5", "6", "7", "8", "9", "+", "/">>

IsB64Char(c) == \E i \in 1..64 : B64Alphabet[i] = c
B64Val(c) == (CHOOSE i \in 1..64 : B64Alphabet[i] = c) - 1

\* The decoder's scan of the characters from position i on: characters
\* outside the alphabet are discarded, a complete padding ends the input, and
\* an incomplete last quad is an error ("Incorrect padding").
RECURSIVE B64Scan(_, _, _, _, _, _)
B64Scan(data, i, quad_pos, leftchar, pads, out) ==
    IF i > Len(data) THEN [ok |-> quad_pos = 0, bytes |-> out]
    ELSE LET ch == data[i] IN
      IF ch = "="
      THEN IF quad_pos >= 2 /\ quad_pos + pads + 1 >= 4
           THEN [ok |-> TRUE, bytes |-> out]
           ELSE B64Scan(data, i + 1, quad_pos, leftchar,
                        IF quad_pos >= 2 THEN pads + 1 ELSE pads, out)
      ELSE IF ~IsB64Char(ch)
      THEN B64Scan(data, i + 1, quad_pos, leftchar, pads, out)
      ELSE LET v == B64Val(ch) IN
        CASE quad_pos = 0 -> B64Scan(data, i + 1, 1, v, 0, out)
          [] quad_pos = 1 ->
               B64Scan(data, i + 1, 2, v % 16, 0,
                       Append(out, (leftchar * 4 + v \div 16) % 256))
          [] quad_pos = 2 ->
               B64Scan(data, i + 1, 3, v % 4, 0,
                       Append(out, (leftchar * 16 + v \div 4) % 256))
          [] quad_pos = 3 ->
               B64Scan(data, i + 1, 0, 0, 0,
                       Append(out, (leftchar * 64 + v) % 256))

\* base64.b64decode(v): ok is FALSE where it raises (a value that is no
\* string, or a string with incorrect padding).
b64decode(v) ==
    IF v.t # "str" THEN [ok |-> FALSE, bytes |-> <<>>]
    ELSE B64Scan(v.s, 1, 0, 0, 0, <<>>)

\* --------------------------------------------------------- hOCR documents
\* A span element of an hOCR document, by its parts: the order of the class
\* and title attributes, the case of the markup, the quote character, the
\* class token, further attributes between the two, the components of the
\* bbox directive, further properties of the title after it, and the content.
Span(titleFirst, upper, quote, cls, mid, bbox, props, content) ==
    [titleFirst |-> titleFirst, upper |-> upper, quote |-> quote, cls |-> cls,
     mid |-> mid, bbox |-> bbox, props |-> props, content |-> content]

ClsWord == <<"o", "c", "r", "x", "_", "w", "o", "r", "d">>
ClsLine == <<"o", "c", "r", "_", "l", "i", "n", "e">>
IdAttr == <<"i", "d", "=", "'", "w", "1", "'", " ">>
ConfProps == <<";", " ", "x", "_", "w", "c", "o", "n", "f", " ", "9">>
LongWord == [i \in 1..LongWordLen |-> "x"]

SpanCanon == Span(FALSE, FALSE, "'", ClsWord, <<>>, <<<<"1", "0">>, <<"2", "0">>, <<"5", "0">>, <<"4", "0">>>>, <<>>, <<"H", "i">>)
SpanUpper == Span(FALSE, TRUE, "\"", ClsWord, <<>>, <<<<"1">>, <<"2">>, <<"3">>, <<"4">>>>, <<>>, <<" ", "y", "o", " ">>)
SpanProps == Span(FALSE, FALSE, "'", ClsWord, <<>>, <<<<"5">>, <<"6">>, <<"7">>, <<"8">>>>, ConfProps, <<"o", "k">>)
SpanTitleFirst == Span(TRUE, FALSE, "'", ClsWord, <<>>, <<<<"5">>, <<"6">>, <<"7">>, <<"8">>>>, <<>>, <<"t", "f">>)
SpanNonNumeric == Span(FALSE, FALSE, "'", ClsWord, <<>>, <<<<"1">>, <<"x">>, <<"3">>, <<"4">>>>, <<>>, <<"n", "n">>)
SpanMissingCoord == Span(FALSE, FALSE, "'", ClsWord, <<>>, <<<<"1">>, <<"2">>, <<"3">>>>, <<>>, <<"m", "c">>)
SpanBlank == Span(FALSE, FALSE, "'", ClsWord, <<>>, <<<<"1">>, <<"2">>, <<"3">>, <<"4">>>>, <<>>, <<" ">>)
SpanInverted == Span(FALSE, FALSE, "'", ClsWord, <<>>, <<<<"5", "0">>, <<"2", "0">>, <<"1", "0">>, <<"4", "0">>>>, <<>>, <<"i", "v">>)
SpanLine == Span(FALSE, FALSE, "'", ClsLine, <<>>, <<<<"1">>, <<"2">>, <<"3">>, <<"4">>>>, <<>>, <<"l", "n">>)
SpanWithId == Span(FALSE, FALSE, "'", ClsWord, IdAttr, <<<<"1">>, <<"2">>, <<"3">>, <<"9">>>>, <<>>, <<"i", "d">>)
SpanLong == Span(FALSE, FALSE, "'", ClsWord, <<>>, <<<<"1">>, <<"2">>, <<"3">>, <<"4">>>>, <<>>, LongWord)

SpanShapes ==
    {SpanCanon, SpanUpper, SpanProps, SpanTitleFirst, SpanNonNumeric, SpanMissingCoord,
     SpanBlank, SpanInverted, SpanLine, SpanWithId, SpanLong}

\* The markup of one span element.
RenderSpan(d) ==
    LET q == <<d.quote>>
        classAttr == <<"c", "l", "a", "s", "s", "=">> \o q \o d.cls \o q
        titleAttr == <<"t", "i", "t", "l", "e", "=">> \o q \o <<"b", "b", "o", "x", " ">>
                     \o Join(d.bbox) \o d.props \o q
        open == <<"<", "s", "p", "a", "n", " ">>
                \o (IF d.titleFirst THEN titleAttr ELSE classAttr)
                \o <<" ">> \o d.mid
                \o (IF d.titleFirst THEN classAttr ELSE titleAttr)
                \o <<">">>
        close == <<"<", "/", "s", "p", "a", "n", ">">>
        case(t) == IF d.upper THEN [i \in 1..Len(t) |-> ToUpper(t[i])] ELSE t
    IN case(open) \o d.content \o case(close)

\* The markup of a document: its spans, one per line.
RECURSIVE RenderDoc(_)
RenderDoc(doc) ==
    IF Len(doc) = 0 THEN <<>>
    ELSE RenderSpan(doc[1]) \o <<"\n">> \o RenderDoc(Tail(doc))

Docs == UNION {[1..n -> SpanShapes] : n \in 0..MaxSpans}

\* ---------------------------------------------------------------- requests
\* The body of a request: "invalid" is no JSON text, "value" is a JSON value
\* val that is no object, "object" is a JSON object with the two fields
\* (present or not) and `others` further keys.
Body(kind, val, has_hocr, hocr, has_pdf, pdf, others) ==
    [kind |-> kind, val |-> val, has_hocr |-> has_hocr, hocr |-> hocr,
     has_pdf |-> has_pdf, pdf |-> pdf, others |-> others]

NoBody == Body("invalid", Null, FALSE, Null, FALSE, Null, 0)

\* Values of the field originalPdf: empty, "QQ==", "QQ=" (incorrect padding),
\* "QQ==\n" (a discarded character), a number, a list.
PdfValues ==
    {Str(<<>>), Str(<<"Q", "Q", "=", "=">>), Str(<<"Q", "Q", "=">>),
     Str(<<"Q", "Q", "=", "=", "\n">>), Num(5), List(1)}

\* Values of the field hocr that are no markup.
OtherHocrValues == {Num(5), Num(0), Dict(1), List(1), Null}

\* Bodies that are no JSON object.
ValueBodies ==
    {NoBody}
    \cup {Body("value", v, FALSE, Null, FALSE, Null, 0) : v \in {Null, List(0), List(1), Num(5)}}

\* JSON objects without markup in hocr.
PlainObjects ==
    {Body("object", Null, FALSE, Null, FALSE, Null, n) : n \in {0, 1}}
    \cup {Body("object", Null, FALSE, Null, TRUE, p, 0) : p \in PdfValues}
    \cup {Body("object", Null, TRUE, h, hp, IF hp THEN p ELSE Null, 0) :
            h \in OtherHocrValues, hp \in BOOLEAN, p \in PdfValues}

\* A JSON object whose hocr is the markup of doc.
DocObject(doc, has_pdf, pdf) ==
    Body("object", Null, TRUE, Str(RenderDoc(doc)), has_pdf, IF has_pdf THEN pdf ELSE Null, 0)

VARIABLES
    pc,          \* where the handler stands: idle, validate, parse, respond, except, done
    is_json,     \* request.is_json
    body,        \* the body of the request
    doc,         \* the spans the markup in hocr was written from
    words,       \* words, as returned by parse_hocr_words
    exc,         \* str(e) of the exception on its way to the handler's except clause
    response,    \* the JSON record of the response
    status,      \* the HTTP status of the response
    parseCalls   \* invocations of parse_hocr_words during the request

vars == <<pc, is_json, body, doc, words, exc, response, status, parseCalls>>

\* data = request.get_json(); `not data`
DataTruthy(b) ==
    IF b.kind = "value" THEN Truthy(b.val)
    ELSE (IF b.has_hocr THEN 1 ELSE 0) + (IF b.has_pdf THEN 1 ELSE 0) + b.others > 0

\* data.get('hocr', '') and data.get('originalPdf', '')
hocr_html == IF body.has_hocr THEN body.hocr ELSE Str(<<>>)
original_pdf_b64 == IF body.has_pdf THEN body.pdf ELSE Str(<<>>)

NoResponse == [success |-> FALSE]

Init ==
    /\ pc = "idle"
    /\ is_json = FALSE
    /\ body = NoBody
    /\ doc = <<>>
    /\ words = <<>>
    /\ exc = ""
    /\ response = NoResponse
    /\ status = 0
    /\ parseCalls = 0

\* A request arrives at /convert.
Arrive(j, b, d) ==
    /\ pc' = "validate"
    /\ is_json' = j
    /\ body' = b
    /\ doc' = d
    /\ words' = <<>>
    /\ exc' = ""
    /\ response' = NoResponse
    /\ status' = 0
    /\ parseCalls' = 0

\* The requests: one that is no JSON, bodies that are no object, objects
\* without markup, and objects whose hocr is the markup of a document.
Receive ==
    /\ pc = "idle"
    /\ \/ Arrive(FALSE, NoBody, <<>>)
       \/ \E b \in ValueBodies \cup PlainObjects : Arrive(TRUE, b, <<>>)
       \/ \E d \in Docs, p \in PdfValues \cup {Null} :
            Arrive(TRUE, DocObject(d, p # Null, p), d)

\* return jsonify(r), code
Respond(r, code) ==
    /\ response' = r
    /\ status' = code
    /\ pc' = "done"
    /\ UNCHANGED <<is_json, body, doc, words, exc, parseCalls>>

\* raise: control passes to the except clause of the handler
Raise(msg) ==
    /\ exc' = msg
    /\ pc' = "except"
    /\ UNCHANGED <<is_json, body, doc, words, response, status, parseCalls>>

\* if not request.is_json
RequestNotJson ==
    /\ pc = "validate"
    /\ ~is_json
    /\ Respond([success |-> FALSE, error |-> "Request must be JSON"], 400)

\* data = request.get_json() on a body that is no JSON
GetJsonFails ==
    /\ pc = "validate"
    /\ is_json
    /\ body.kind = "invalid"
    /\ Raise("400 Bad Request")

\* if not data
NoJsonData ==
    /\ pc = "validate"
    /\ is_json
    /\ body.kind # "invalid"
    /\ ~DataTruthy(body)
    /\ Respond([success |-> FALSE, error |-> "No JSON data provided"], 400)

\* data.get(...) on a JSON value that is no object
GetFieldFails ==
    /\ pc = "validate"
    /\ is_json
    /\ body.kind = "value"
    /\ DataTruthy(body)
    /\ Raise("object has no attribute 'get'")

\* if not hocr_html
MissingHocr ==
    /\ pc = "validate"
    /\ is_json
    /\ body.kind = "object"
    /\ DataTruthy(body)
    /\ ~Truthy(hocr_html)
    /\ Respond([success |-> FALSE, error |-> "Missing hocr data"], 400)

\* MissingOriginalPdf without its return: the request goes on to the parser.
MissingOriginalPdfFallsThrough ==
    /\ pc = "validate"
    /\ is_json
    /\ body.kind = "object"
    /\ DataTruthy(body)
    /\ Truthy(hocr_html)
    /\ ~Truthy(original_pdf_b64)
    /\ pc' = "parse"
    /\ UNCHANGED <<is_json, body, doc, words, exc, response, status, parseCalls>>

\* if not original_pdf_b64
MissingOriginalPdf ==
    /\ pc = "validate"
    /\ is_json
    /\ body.kind = "object"
    /\ DataTruthy(body)
    /\ Truthy(hocr_html)
    /\ ~Truthy(original_pdf_b64)
    /\ Respond([success |-> FALSE, error |-> "Missing originalPdf data"], 400)

\* Both fields are there.
FieldsGiven ==
    /\ pc = "validate"
    /\ is_json
    /\ body.kind = "object"
    /\ DataTruthy(body)
    /\ Truthy(hocr_html)
    /\ Truthy(original_pdf_b64)

\* len(hocr_html), len(original_pdf_b64) in the two log lines
LenFails ==
    /\ FieldsGiven
    /\ ~HasLen(hocr_html) \/ ~HasLen(original_pdf_b64)
    /\ Raise("object has no len()")

\* except Exception around base64.b64decode
InvalidBase64 ==
    /\ FieldsGiven
    /\ HasLen(hocr_html) /\ HasLen(original_pdf_b64)
    /\ ~b64decode(original_pdf_b64).ok
    /\ Respond([success |-> FALSE, error |-> "Invalid base64 PDF data"], 400)

\* pdf_bytes = base64.b64decode(original_pdf_b64)
DecodePdf ==
    /\ FieldsGiven
    /\ HasLen(hocr_html) /\ HasLen(original_pdf_b64)
    /\ b64decode(original_pdf_b64).ok
    /\ pc' = "parse"
    /\ UNCHANGED <<is_json, body, doc, words, exc, response, status, parseCalls>>

\* words = parse_hocr_words(hocr_html)
ParseWords ==
    /\ pc = "parse"
    /\ parseCalls' = parseCalls + 1
    /\ LET r == parse_hocr_words(hocr_html)
       IN IF r.raised
          THEN /\ exc' = r.exc
               /\ pc' = "except"
               /\ UNCHANGED words
          ELSE /\ words' = r.words
               /\ pc' = "respond"
               /\ UNCHANGED exc
    /\ UNCHANGED <<is_json, body, doc, response, status>>

\* base64.b64encode(bytes)
RECURSIVE b64encode(_)
b64encode(bytes) ==
    LET ch(v) == B64Alphabet[v + 1] IN
    IF Len(bytes) = 0 THEN <<>>
    ELSE IF Len(bytes) = 1
    THEN <<ch(bytes[1] \div 4), ch((bytes[1] % 4) * 16), "=", "=">>
    ELSE IF Len(bytes) = 2
    THEN <<ch(bytes[1] \div 4), ch((bytes[1] % 4) * 16 + bytes[2] \div 16),
           ch((bytes[2] % 16) * 4), "=">>
    ELSE <<ch(bytes[1] \div 4), ch((bytes[1] % 4) * 16 + bytes[2] \div 16),
           ch((bytes[2] % 16) * 4 + bytes[3] \div 64), ch(bytes[3] % 64)>>
         \o b64encode(SubSeq(bytes, 4, Len(bytes)))

\* NoWords answering with the decoded PDF encoded anew instead of the string
\* of the request.
NoWordsReencoded ==
    /\ pc = "respond"
    /\ words = <<>>
    /\ \E ms \in 0..MaxElapsedMs :
         Respond([success |-> TRUE,
                  searchablePdf |-> Str(b64encode(b64decode(original_pdf_b64).bytes)),
                  wordsExtracted |-> 0,
                  processingTimeMs |-> ms,
                  message |-> "No words found in hOCR - returned original PDF"], 200)

\* if not words: the original PDF is returned
NoWords ==
    /\ pc = "respond"
    /\ words = <<>>
    /\ \E ms \in 0..MaxElapsedMs :
         Respond([success |-> TRUE,
                  searchablePdf |-> original_pdf_b64,
                  wordsExtracted |-> 0,
                  processingTimeMs |-> ms,
                  message |-> "No words found in hOCR - returned original PDF"], 200)

\* ' '.join([word['text'] for word in words if word['text']])
full_text(ws) == Join(NonEmpty([i \in 1..Len(ws) |-> ws[i].text]))

\* WordsFound counting only the words that enter the excerpt.
WordsFoundCountsExcerpt ==
    /\ pc = "respond"
    /\ words # <<>>
    /\ \E ms \in 0..MaxElapsedMs :
         Respond([success |-> TRUE,
                  searchablePdf |-> original_pdf_b64,
                  wordsExtracted |-> Len(NonEmpty([i \in 1..Len(words) |-> words[i].text])),
                  extractedText |-> Take(full_text(words), ExcerptLen),
                  processingTimeMs |-> ms,
                  message |-> "hOCR processed successfully - " \o ToString(Len(words))
                              \o " words extracted",
                  timestamp |-> "utcnow"], 200)

\* the response with the extracted words
WordsFound ==
    /\ pc = "respond"
    /\ words # <<>>
    /\ \E ms \in 0..MaxElapsedMs :
         Respond([success |-> TRUE,
                  searchablePdf |-> original_pdf_b64,
                  wordsExtracted |-> Len(words),
                  extractedText |-> Take(full_text(words), ExcerptLen),
                  processingTimeMs |-> ms,
                  message |-> "hOCR processed successfully - " \o ToString(Len(words))
                              \o " words extracted",
                  timestamp |-> "utcnow"], 200)

\* except Exception as e
ConversionFailed ==
    /\ pc = "except"
    /\ \E ms \in 0..MaxElapsedMs :
         Respond([success |-> FALSE,
                  error |-> "Conversion failed: " \o exc,
                  processingTimeMs |-> ms,
                  timestamp |-> "utcnow"], 500)

\* The response is sent; nothing of the request is kept.
Finish ==
    /\ pc = "done"
    /\ pc' = "idle"
    /\ is_json' = FALSE
    /\ body' = NoBody
    /\ doc' = <<>>
    /\ words' = <<>>
    /\ exc' = ""
    /\ response' = NoResponse
    /\ status' = 0
    /\ parseCalls' = 0

Next ==
    \/ Receive
    \/ RequestNotJson
    \/ GetJsonFails
    \/ NoJsonData
    \/ GetFieldFails
    \/ MissingHocr
    \/ MissingOriginalPdf
    \/ LenFails
    \/ InvalidBase64
    \/ DecodePdf
    \/ ParseWords
    \/ NoWords
    \/ WordsFound
    \/ ConversionFailed
    \/ Finish

Spec == Init /\ [][Next]_vars
\* ================================================================ properties
\* What the specification calls a well-formed word span, read off the parts
\* of the span: the word class, a bbox directive of four non-negative
\* integers, and content that is text only.
IsNumber(cs) == Len(cs) > 0 /\ \A i \in 1..Len(cs) : IsDigit(cs[i])
HasWordClass(d) == d.cls = ClsWord
HasBbox(d) == Len(d.bbox) = 4 /\ \A i \in 1..4 : IsNumber(d.bbox[i])
WellFormed(d) ==
    /\ HasWordClass(d)
    /\ HasBbox(d)
    /\ Len(d.content) > 0
    /\ \A i \in 1..Len(d.content) : d.content[i] # "<"
MalformedBbox(d) == HasWordClass(d) /\ ~HasBbox(d)

\* The Word record the specification gives a well-formed span.
RecordOf(d) ==
    [text |-> Strip(d.content),
     x1 |-> ToInt(d.bbox[1]), y1 |-> ToInt(d.bbox[2]),
     x2 |-> ToInt(d.bbox[3]), y2 |-> ToInt(d.bbox[4])]

RECURSIVE WellFormedRecords(_)
WellFormedRecords(d) ==
    IF Len(d) = 0 THEN <<>>
    ELSE (IF WellFormed(d[1]) THEN <<RecordOf(d[1])>> ELSE <<>>)
         \o WellFormedRecords(Tail(d))

\* The parser has returned the words of the markup written from doc.
Parsed == pc = "respond" /\ Len(doc) > 0

\* C1: a document of N well-formed word spans, of every shape the
\* specification admits, yields exactly N Word records, the i-th being the
\* record of the i-th span.
C1_AllWellFormedSpansParsed ==
    (Parsed /\ \A i \in 1..Len(doc) : WellFormed(doc[i]))
        => words = [i \in 1..Len(doc) |-> RecordOf(doc[i])]

\* C2: a document that mixes well-formed word spans with spans of malformed
\* bbox yields exactly the records of the well-formed spans, in document
\* order.
C2_MalformedSpansExcluded ==
    (/\ Parsed
     /\ \A i \in 1..Len(doc) : WellFormed(doc[i]) \/ MalformedBbox(doc[i])
     /\ \E i \in 1..Len(doc) : WellFormed(doc[i])
     /\ \E i \in 1..Len(doc) : MalformedBbox(doc[i]))
        => words = WellFormedRecords(doc)

\* Lemma for C2: a span of malformed bbox neither adds a record nor changes
\* or suppresses the record of another span: the parser returns what it
\* returns for the document without the malformed spans.
MalformedSpansAreInert ==
    Parsed =>
        words = parse_hocr_words(
                    Str(RenderDoc(SelectSeq(doc, LAMBDA d : ~MalformedBbox(d))))).words

\* A field of the request is missing or empty.
HocrMissing == ~body.has_hocr \/ ~Truthy(body.hocr)
PdfMissing == ~body.has_pdf \/ ~Truthy(body.pdf)
FieldMissing == is_json /\ body.kind = "object" /\ (HocrMissing \/ PdfMissing)
EmptyObject == ~body.has_hocr /\ ~body.has_pdf /\ body.others = 0

\* C3 as stated: a JSON request with hocr or originalPdf missing or empty is
\* answered success=false with status 400 and an error that names the
\* missing field, and the parser is never invoked during the request.
C3_ErrorNamesMissingField ==
    FieldMissing =>
        /\ parseCalls = 0
        /\ pc = "done" =>
             /\ status = 400
             /\ response.success = FALSE
             /\ \/ HocrMissing /\ response.error = "Missing hocr data"
                \/ PdfMissing /\ response.error = "Missing originalPdf data"

\* C3 amended: as C3, except that the error names the first missing field
\* (hocr before originalPdf) and that the empty object is answered
\* "No JSON data provided"; the request never reaches the parser or the
\* except clause.
C3_MissingFieldRejected ==
    FieldMissing =>
        /\ parseCalls = 0
        /\ pc \in {"validate", "done"}
        /\ pc = "done" =>
             /\ status = 400
             /\ response.success = FALSE
             /\ response.error =
                  IF EmptyObject THEN "No JSON data provided"
                  ELSE IF HocrMissing THEN "Missing hocr data"
                  ELSE "Missing originalPdf data"

\* Witness of C3: a request whose hocr holds a well-formed word span and
\* whose originalPdf is missing has been rejected.
C3_Witness ==
    /\ pc = "done"
    /\ FieldMissing
    /\ ~HocrMissing
    /\ doc = <<SpanCanon>>
    /\ status = 400
    /\ response.error = "Missing originalPdf data"

\* The request holds non-empty markup and a decodable non-empty PDF, and the
\* markup has no span the parser matches.
ZeroWordsRequest ==
    /\ is_json
    /\ body.kind = "object"
    /\ body.has_hocr /\ body.hocr.t = "str" /\ Truthy(body.hocr)
    /\ body.has_pdf /\ body.pdf.t = "str" /\ Truthy(body.pdf)
    /\ b64decode(body.pdf).ok
    /\ parse_hocr_words(body.hocr).words = <<>>

\* C4: a request with non-empty hocr, a decodable non-empty originalPdf and
\* zero matching word spans is answered success=true, wordsExtracted=0 and
\* the originalPdf of the request as searchablePdf.
C4_ZeroWordsIsSuccess ==
    (pc = "done" /\ ZeroWordsRequest) =>
        /\ status = 200
        /\ response.success = TRUE
        /\ response.wordsExtracted = 0
        /\ response.searchablePdf = body.pdf

\* Witness of C4: markup with spans, none of them matched, and a PDF string
\* that decoding and encoding anew would not give back.
C4_Witness ==
    /\ pc = "done"
    /\ ZeroWordsRequest
    /\ doc = <<SpanNonNumeric, SpanLine>>
    /\ body.pdf = Str(<<"Q", "Q", "=", "=", "\n">>)
    /\ response.success = TRUE

\* C5: every Word record the parser returns has a text that is non-empty
\* after trimming.
C5_TextNonEmpty ==
    \A i \in 1..Len(words) : Strip(words[i].text) # <<>>

\* C6: every Word record the parser returns has non-negative coordinates with
\* x2 >= x1 and y2 >= y1.
C6_BboxOrdered ==
    \A i \in 1..Len(words) :
        /\ words[i].x1 >= 0 /\ words[i].y1 >= 0
        /\ words[i].x2 >= words[i].x1
        /\ words[i].y2 >= words[i].y1

\* C7: every response has a boolean success, and every response with
\* success=false carries an error string and processingTimeMs.
C7_FailureCarriesErrorAndTiming ==
    pc = "done" =>
        /\ "success" \in DOMAIN response
        /\ response.success \in BOOLEAN
        /\ response.success = FALSE =>
             {"error", "processingTimeMs"} \subseteq DOMAIN response

\* C8: when the parser returns words, extractedText is the first 500
\* characters of the texts of all returned Words joined by single spaces, and
\* wordsExtracted is the number of those Words.
C8_ExcerptJoinsAllWords ==
    (pc = "done" /\ words # <<>>) =>
        /\ response.extractedText =
             Take(Join([i \in 1..Len(words) |-> words[i].text]), ExcerptLen)
        /\ response.wordsExtracted = Len(words)

\* Lemma for C8: the excerpt and the count are as C8 says whenever no
\* returned Word has an empty text.
ExcerptJoinsWordsWithText ==
    (/\ pc = "done"
     /\ words # <<>>
     /\ \A i \in 1..Len(words) : words[i].text # <<>>)
        => /\ response.extractedText =
                Take(Join([i \in 1..Len(words) |-> words[i].text]), ExcerptLen)
           /\ response.wordsExtracted = Len(words)

\* C9: no exception leaves parse_hocr_words, whatever value it is called
\* with: once the parser has been invoked, the handler never stands in its
\* except clause (nothing else after the invocation can raise).
C9_ParseNeverRaises ==
    parseCalls > 0 => pc # "except"

\* C10: every response with success=true carries the originalPdf string of
\* the request as searchablePdf, and as wordsExtracted the number of Word
\* records the parser returned for the request.
C10_SuccessPassesPdfThrough ==
    (pc = "done" /\ response.success) =>
        /\ parseCalls = 1
        /\ response.searchablePdf = original_pdf_b64
        /\ response.wordsExtracted = Len(words)

\* Witness of C10: two words were parsed, one of them with empty text, and
\* the response is a success.
C10_Witness ==
    /\ pc = "done"
    /\ response.success
    /\ doc = <<SpanBlank, SpanCanon>>
    /\ Len(words) = 2
    /\ response.wordsExtracted = 2
====
